---- MODULE Spec2Model ----
(***************************************************************************)
(* Model of src/src/context/TransactionContext.tsx: the TransactionProvider *)
(* React component.  The component state is the three useState cells        *)
(* (transactions, loading, error); setState calls are queued and applied by *)
(* the next render, after which the persist effect runs.  Callbacks read    *)
(* the `transactions` value of the render that created them.                *)
(***************************************************************************)
EXTENDS Integers, Sequences, FiniteSets, TLC

VARIABLES
    transactions,   \* useState<Transaction[]>: value of the current render
    loading,        \* useState(true)
    error,          \* useState<string | null>(null)
    queue,          \* setState calls not yet applied by a render
    store,          \* localStorage['volvy-bank-transactions']
    timer,          \* the setTimeout of the load effect: "pending" or "fired"
    nextId,         \* source of getNewId
    events,         \* calls made to updateClientBalance and toast.success, in order
    lastOp,         \* the most recent call made on the context
    createCall,     \* per id: the updateClientBalance call made when it was created
    reversalCall,   \* per id: the last updateClientBalance call made when it was deleted
    reversals,      \* per id: number of reversal calls made
    deleted,        \* ids whose removal has been applied by a render
    mutated,        \* a mutation was made after the load completed
    issued,         \* ids given to a record so far
    ret             \* the value returned by getTransaction / getClientTransactions,
                    \* until the next step

vars == <<transactions, loading, error, queue, store, timer, nextId, events, lastOp,
          createCall, reversalCall, reversals, deleted, mutated, issued, ret>>

----------------------------------------------------------------------------
(* Bounds *)
MaxOps == 2         \* calls of addTransaction, transferFunds and deleteTransaction
                    \* (those that find their record) made on one mounted component

----------------------------------------------------------------------------
(* Values *)
Undefined == "undefined"
Null == "null"

Keys == <<"id", "clientId", "accountId", "type", "amount", "description",
          "date", "status", "currency", "recipientAccountId", "recipientClientId">>

NumRange == -1 .. 5

IdOf(n) == "t" \o ToString(n)
(* t0 is never given to a record; t1 and t2 are the seed; the calls can use up
   two ids each *)
Ids == {IdOf(n) : n \in 0 .. (2 + 2 * MaxOps)}

(* new Date(): every call of the explored window reads the same second *)
Now == 0

format(n) == "1970-01-01 00:00:0" \o ToString(n)

Tx(id, c, a, ty, amt, desc, d, cur, ra, rc) ==
    [id |-> id, clientId |-> c, accountId |-> a, type |-> ty, amount |-> amt,
     description |-> desc, date |-> d, status |-> "completed", currency |-> cur,
     recipientAccountId |-> ra, recipientClientId |-> rc]

NoTx == Tx(Undefined, Undefined, Undefined, Undefined, 0, Undefined, Undefined, Undefined,
          Undefined, Undefined)

mockTransactions ==
    << Tx("t1", "C1", "A1", "deposit", 5, "seed deposit", format(Now), "HTG", Undefined, Undefined),
       Tx("t2", "C2", "A2", "withdrawal", 5, "seed withdrawal", format(Now), "HTG", Undefined, Undefined) >>

----------------------------------------------------------------------------
(* JSON.stringify / JSON.parse of a Transaction[] *)

RECURSIVE SeqFilterKeys(_, _, _)
SeqFilterKeys(t, ks, i) ==
    IF i > Len(ks) THEN <<>>
    ELSE LET k == ks[i]
             rest == SeqFilterKeys(t, ks, i + 1)
         IN IF k = "amount" THEN << <<k, "number", ToString(t[k])>> >> \o rest
            ELSE IF t[k] = Undefined THEN rest
            ELSE << <<k, "string", t[k]>> >> \o rest

StringifyObj(t) == SeqFilterKeys(t, Keys, 1)

JSONstringify(txs) == [i \in 1 .. Len(txs) |-> StringifyObj(txs[i])]

ParseNumber(s) == CHOOSE n \in NumRange : ToString(n) = s

ParseObj(o) ==
    [k \in {Keys[i] : i \in 1 .. Len(Keys)} |->
        IF \E j \in 1 .. Len(o) : o[j][1] = k
        THEN LET p == o[CHOOSE j \in 1 .. Len(o) : o[j][1] = k]
             IN IF p[2] = "number" THEN ParseNumber(p[3]) ELSE p[3]
        ELSE Undefined]

JSONparse(items) == [i \in 1 .. Len(items) |-> ParseObj(items[i])]

StoreAbsent == [kind |-> "absent", items |-> <<>>]
StoreCorrupt == [kind |-> "corrupt", items |-> <<>>]
StoreText(txs) == [kind |-> "text", items |-> JSONstringify(txs)]

----------------------------------------------------------------------------
(* Observed calls *)
Adjust(c, a, amt, cr) ==
    [kind |-> "adjust", clientId |-> c, accountId |-> a, amount |-> amt,
     isCredit |-> cr, message |-> ""]
Throw(c, a, amt, cr) ==
    [kind |-> "throw", clientId |-> c, accountId |-> a, amount |-> amt,
     isCredit |-> cr, message |-> ""]
Toast(m) ==
    [kind |-> "toast", clientId |-> "", accountId |-> "", amount |-> 0,
     isCredit |-> FALSE, message |-> m]
NoCall ==
    [kind |-> "none", clientId |-> "", accountId |-> "", amount |-> 0,
     isCredit |-> FALSE, message |-> ""]

Ret(name, arg, value) == [op |-> name, arg |-> arg, value |-> value]
NoRet == Ret("none", "", <<>>)

Op(name, id, found) == [op |-> name, id |-> id, found |-> found]

----------------------------------------------------------------------------
(* Queued setState calls *)
UAppend(recs) == [kind |-> "append", recs |-> recs, id |-> ""]
UFilter(id) == [kind |-> "filter", recs |-> <<>>, id |-> id]
USet(recs) == [kind |-> "set", recs |-> recs, id |-> ""]
USetLoading == [kind |-> "setLoading", recs |-> <<>>, id |-> ""]
USetError == [kind |-> "setError", recs |-> <<>>, id |-> ""]

IsTxUpdate(u) == u.kind \in {"append", "filter", "set"}

(* filter with the test inverted: keeps the record it should remove *)
RECURSIVE filterOut_inverted(_, _)
filterOut_inverted(txs, id) ==
    IF txs = <<>> THEN <<>>
    ELSE IF Head(txs).id = id THEN <<Head(txs)>> \o filterOut_inverted(Tail(txs), id)
    ELSE filterOut_inverted(Tail(txs), id)

RECURSIVE filterOut(_, _)
filterOut(txs, id) ==
    IF txs = <<>> THEN <<>>
    ELSE IF Head(txs).id # id THEN <<Head(txs)>> \o filterOut(Tail(txs), id)
    ELSE filterOut(Tail(txs), id)

(* the append updater written as [...new, ...prev] *)
ApplyUpdate_prepend(prev, u) ==
    CASE u.kind = "append" -> u.recs \o prev
      [] u.kind = "filter" -> filterOut(prev, u.id)
      [] u.kind = "set" -> u.recs
      [] OTHER -> prev

ApplyUpdate(prev, u) ==
    CASE u.kind = "append" -> prev \o u.recs
      [] u.kind = "filter" -> filterOut(prev, u.id)
      [] u.kind = "set" -> u.recs
      [] OTHER -> prev

RECURSIVE ApplyQueue(_, _)
ApplyQueue(prev, q) ==
    IF q = <<>> THEN prev ELSE ApplyQueue(ApplyUpdate(prev, Head(q)), Tail(q))

(* find whose test never matches *)
find_never(txs, id) == NoTx

(* find that falls back to the first record when no id matches *)
find_fallback(txs, id) ==
    IF \E i \in 1 .. Len(txs) : txs[i].id = id
    THEN txs[CHOOSE i \in 1 .. Len(txs) :
                 txs[i].id = id /\ \A j \in 1 .. (i - 1) : txs[j].id # id]
    ELSE IF txs # <<>> THEN txs[1] ELSE NoTx

find(txs, id) ==
    IF \E i \in 1 .. Len(txs) : txs[i].id = id
    THEN txs[CHOOSE i \in 1 .. Len(txs) :
                 txs[i].id = id /\ \A j \in 1 .. (i - 1) : txs[j].id # id]
    ELSE NoTx

Min(a, b) == IF a < b THEN a ELSE b

----------------------------------------------------------------------------
(* Inputs *)
AddInputs ==
    { [clientId |-> "C1", accountId |-> "A1", type |-> "deposit", amount |-> 5,
       description |-> "cash", currency |-> "HTG"],
      [clientId |-> "C1", accountId |-> "A1", type |-> "withdrawal", amount |-> -1,
       description |-> "cash", currency |-> "HTG"],
      [clientId |-> "C2", accountId |-> "A2", type |-> "transfer", amount |-> 5,
       description |-> "cash", currency |-> "HTG"] }

TransferInputs ==
    [fromClientId : {"C1"}, fromAccountId : {"A1"},
     toClientId : {"C2"}, toAccountId : {"A2"},
     amount : {5}, description : {"rent"}, currency : {"HTG"}]

InitStores == {StoreAbsent, StoreCorrupt, StoreText(<<mockTransactions[2]>>)}

----------------------------------------------------------------------------
Init ==
    /\ transactions = <<>>
    /\ loading = TRUE
    /\ error = Null
    /\ queue = <<>>
    /\ store \in InitStores
    /\ timer = "pending"
    /\ nextId = 3
    /\ events = <<>>
    /\ lastOp = Op("mount", "", FALSE)
    /\ createCall = [i \in Ids |-> NoCall]
    /\ reversalCall = [i \in Ids |-> NoCall]
    /\ reversals = [i \in Ids |-> 0]
    /\ deleted = {}
    /\ mutated = FALSE
    /\ issued = {mockTransactions[i].id : i \in 1 .. Len(mockTransactions)}
    /\ ret = NoRet

(* Calls made so far that ran past their lookup: each ends in one toast *)
OpsDone == Cardinality({i \in 1 .. Len(events) : events[i].kind \in {"toast", "throw"}})

(* getNewId('t') *)
getNewId(n) == IdOf(n)

(* the snapshot is ignored: the seed is always loaded *)
loadUpdates_seedOnly(st) ==
    IF st.kind = "corrupt"
    THEN <<USetError, USetLoading>>
    ELSE <<USet(mockTransactions), USetLoading>>

(* setLoading(false) missing after setTransactions(JSON.parse(...)) *)
loadUpdates_noSetLoading(st) ==
    IF st.kind = "absent"
    THEN <<USet(mockTransactions), USetLoading>>
    ELSE IF st.kind = "corrupt"
    THEN <<USetError, USetLoading>>
    ELSE <<USet(JSONparse(st.items))>>

(* setLoading(false) missing in the catch branch *)
loadUpdates_catchKeepsLoading(st) ==
    IF st.kind = "absent"
    THEN <<USet(mockTransactions), USetLoading>>
    ELSE IF st.kind = "corrupt"
    THEN <<USetError>>
    ELSE <<USet(JSONparse(st.items)), USetLoading>>

(* The body of the setTimeout callback: the setState calls it makes *)
loadUpdates(st) ==
    IF st.kind = "absent"
    THEN <<USet(mockTransactions), USetLoading>>
    ELSE IF st.kind = "corrupt"
    THEN <<USetError, USetLoading>>
    ELSE <<USet(JSONparse(st.items)), USetLoading>>

(* The callback of setTimeout in the load effect *)
LoadCallback ==
    /\ timer = "pending"
    /\ timer' = "fired"
    /\ queue' = queue \o loadUpdates(store)
    /\ lastOp' = Op("load", "", store.kind # "absent")
    /\ ret' = NoRet
    /\ UNCHANGED <<transactions, loading, error, store, nextId, events,
                   createCall, reversalCall, reversals, deleted, mutated, issued>>

(* the persist effect without its guard *)
PersistEffect_unguarded(txs, ld, st) == StoreText(txs)

(* The persist effect, run by a render in which transactions or loading changed *)
PersistEffect(txs, ld, st) ==
    IF ~ld /\ Len(txs) > 0 THEN StoreText(txs) ELSE st

(* A render: applies the queued setState calls, then runs the persist effect *)
Render ==
    /\ queue # <<>>
    /\ LET txs == ApplyQueue(transactions, queue)
           ld == IF \E i \in 1 .. Len(queue) : queue[i].kind = "setLoading"
                 THEN FALSE ELSE loading
           txChanged == \E i \in 1 .. Len(queue) : IsTxUpdate(queue[i])
       IN /\ transactions' = txs
          /\ loading' = ld
          /\ error' = IF \E i \in 1 .. Len(queue) : queue[i].kind = "setError"
                      THEN "Failed to load transactions" ELSE error
          /\ store' = IF txChanged \/ ld # loading
                      THEN PersistEffect(txs, ld, store) ELSE store
          /\ deleted' = deleted \cup
                {queue[i].id : i \in {j \in 1 .. Len(queue) : queue[j].kind = "filter"}}
    /\ queue' = <<>>
    /\ ret' = NoRet
    /\ UNCHANGED <<timer, nextId, events, lastOp,
                   createCall, reversalCall, reversals, mutated, issued>>

newTransaction(t, id, d) ==
    Tx(id, t.clientId, t.accountId, t.type, t.amount, t.description, d, t.currency,
       Undefined, Undefined)

addToast(t) ==
    (IF t.type = "deposit" THEN "Depot" ELSE "Retrait") \o " effectue avec succes!"

(* credit for everything that is not a withdrawal *)
addCall_notWithdrawal(nt) ==
    Adjust(nt.clientId, nt.accountId, nt.amount, nt.type # "withdrawal")

addCall(nt) == Adjust(nt.clientId, nt.accountId, nt.amount, nt.type = "deposit")

addTransaction(t) ==
    /\ OpsDone < MaxOps
    /\ LET nt == newTransaction(t, getNewId(nextId), format(Now))
           call == addCall(nt)
       IN /\ queue' = Append(queue, UAppend(<<nt>>))
          /\ events' = events \o <<call, Toast(addToast(nt))>>
          /\ createCall' = [createCall EXCEPT ![nt.id] = call]
          /\ issued' = issued \cup {nt.id}
          /\ lastOp' = Op("addTransaction", nt.id, TRUE)
    /\ nextId' = nextId + 1
    /\ mutated' = (mutated \/ ~loading)
    /\ ret' = NoRet
    /\ UNCHANGED <<transactions, loading, error, store, timer,
                   reversalCall, reversals, deleted>>

withdrawalTransaction(p, id, d) ==
    Tx(id, p.fromClientId, p.fromAccountId, "transfer", p.amount,
       "Transfert vers " \o p.description, d, p.currency,
       p.toAccountId, p.toClientId)

(* recipient record cross-referencing itself *)
depositTransaction_selfRef(p, id, d) ==
    Tx(id, p.toClientId, p.toAccountId, "transfer", p.amount,
       "Transfert recu de " \o p.description, d, p.currency,
       p.toAccountId, p.toClientId)

depositTransaction(p, id, d) ==
    Tx(id, p.toClientId, p.toAccountId, "transfer", p.amount,
       "Transfert recu de " \o p.description, d, p.currency,
       p.fromAccountId, p.fromClientId)

(* the recipient is credited before the sender is debited *)
transferCalls_swapped(p) ==
    << Adjust(p.toClientId, p.toAccountId, p.amount, TRUE),
       Adjust(p.fromClientId, p.fromAccountId, p.amount, FALSE),
       Toast("Transfert effectue avec succes!") >>

(* one generated id shared by both records *)
transferRecords_sharedId(p, n, d1, d2) ==
    << withdrawalTransaction(p, getNewId(n), d1),
       depositTransaction(p, getNewId(n), d2) >>

transferRecords(p, n, d1, d2) ==
    << withdrawalTransaction(p, getNewId(n), d1),
       depositTransaction(p, getNewId(n + 1), d2) >>

transferCalls(p) ==
    << Adjust(p.fromClientId, p.fromAccountId, p.amount, FALSE),
       Adjust(p.toClientId, p.toAccountId, p.amount, TRUE),
       Toast("Transfert effectue avec succes!") >>

transferFunds(p) ==
    /\ OpsDone < MaxOps
    /\ LET recs == transferRecords(p, nextId, format(Now), format(Now))
           w == recs[1]
           d == recs[2]
           calls == transferCalls(p)
       IN /\ queue' = Append(queue, UAppend(<<w, d>>))
          /\ events' = events \o calls
          /\ createCall' = [createCall EXCEPT ![w.id] = calls[1], ![d.id] = calls[2]]
          /\ lastOp' = Op("transferFunds", w.id, TRUE)
          /\ issued' = issued \cup {w.id, d.id}
    /\ nextId' = nextId + 2
    /\ mutated' = (mutated \/ ~loading)
    /\ ret' = NoRet
    /\ UNCHANGED <<transactions, loading, error, store, timer,
                   reversalCall, reversals, deleted>>

(* the updater queued on line 131 is withdrawn when a later statement throws *)
queueAfterThrow_rolledBack(q, recs) == q

(* setTransactions on line 131 has run when a call on lines 134-135 throws *)
queueAfterThrow(q, recs) == Append(q, UAppend(recs))

(* transferFunds when updateClientBalance throws on the recipient's credit:
   the exception leaves transferFunds, line 137 is not reached *)
transferFundsCreditThrows(p) ==
    /\ OpsDone < MaxOps
    /\ LET recs == transferRecords(p, nextId, format(Now), format(Now))
           calls == transferCalls(p)
       IN /\ queue' = queueAfterThrow(queue, recs)
          /\ events' = events \o
                 <<calls[1],
                   Throw(calls[2].clientId, calls[2].accountId, calls[2].amount,
                         calls[2].isCredit)>>
          /\ createCall' = [createCall EXCEPT ![recs[1].id] = calls[1]]
          /\ lastOp' = Op("transferFundsThrew", recs[1].id, TRUE)
          /\ issued' = issued \cup {recs[1].id, recs[2].id}
    /\ nextId' = nextId + 2
    /\ mutated' = (mutated \/ ~loading)
    /\ ret' = NoRet
    /\ UNCHANGED <<transactions, loading, error, store, timer,
                   reversalCall, reversals, deleted>>

(* credit only when the record is a withdrawal *)
reversal_withdrawalOnly(t) ==
    Adjust(t.clientId, t.accountId, t.amount, t.type = "withdrawal")

reversal(t) == Adjust(t.clientId, t.accountId, t.amount, t.type # "deposit")

deleteTransaction(id) ==
    LET transaction == find(transactions, id)
    IN IF transaction # NoTx
       THEN /\ OpsDone < MaxOps
            /\ events' = events \o
                    <<reversal(transaction), Toast("Transaction supprimee avec succes!")>>
            /\ queue' = Append(queue, UFilter(id))
            /\ reversalCall' = [reversalCall EXCEPT ![id] = reversal(transaction)]
            /\ reversals' = [reversals EXCEPT ![id] = Min(@ + 1, 2)]
            /\ lastOp' = Op("deleteTransaction", id, TRUE)
            /\ mutated' = (mutated \/ ~loading)
            /\ ret' = NoRet
            /\ UNCHANGED <<transactions, loading, error, store, timer, nextId,
                           createCall, deleted, issued>>
       ELSE /\ lastOp' = Op("deleteTransaction", id, FALSE)
            /\ ret' = NoRet
            /\ UNCHANGED <<transactions, loading, error, queue, store, timer, nextId,
                           events, createCall, reversalCall, reversals,
                           deleted, mutated, issued>>

(* transactions.filter(transaction => transaction.clientId === clientId), built
   back to front *)
RECURSIVE filterClient_reversed(_, _)
filterClient_reversed(txs, c) ==
    IF txs = <<>> THEN <<>>
    ELSE IF Head(txs).clientId = c
    THEN filterClient_reversed(Tail(txs), c) \o <<Head(txs)>>
    ELSE filterClient_reversed(Tail(txs), c)

RECURSIVE filterClient(_, _)
filterClient(txs, c) ==
    IF txs = <<>> THEN <<>>
    ELSE IF Head(txs).clientId = c THEN <<Head(txs)>> \o filterClient(Tail(txs), c)
    ELSE filterClient(Tail(txs), c)

getTransaction(id) ==
    /\ ret' = Ret("getTransaction", id, <<find(transactions, id)>>)
    /\ UNCHANGED <<transactions, loading, error, queue, store, timer, nextId, events,
                   lastOp, createCall, reversalCall, reversals, deleted, mutated, issued>>

getClientTransactions(clientId) ==
    /\ ret' = Ret("getClientTransactions", clientId, filterClient(transactions, clientId))
    /\ UNCHANGED <<transactions, loading, error, queue, store, timer, nextId, events,
                   lastOp, createCall, reversalCall, reversals, deleted, mutated, issued>>

ReadIds == {"t0", "t3"}
ReadClients == {"C1", "C3"}

Next ==
    \/ LoadCallback
    \/ Render
    \/ \E t \in AddInputs : addTransaction(t)
    \/ \E p \in TransferInputs : transferFunds(p)
    \/ \E id \in issued \cup {IdOf(0)} : deleteTransaction(id)

Spec == Init /\ [][Next]_vars

(* The same component with the two read operations called as well *)
NextReads ==
    \/ Next
    \/ \E id \in ReadIds : getTransaction(id)
    \/ \E c \in ReadClients : getClientTransactions(c)

SpecReads == Init /\ [][NextReads]_vars

(* The same component with a Balance Adjuster that can fail on a credit *)
NextThrows ==
    \/ Next
    \/ \E p \in TransferInputs : transferFundsCreditThrows(p)

SpecThrows == Init /\ [][NextThrows]_vars

(* The timer callback fires once its delay has passed, and React renders
   queued state updates *)
FairSpec == Spec /\ WF_vars(LoadCallback) /\ WF_vars(Render)

----------------------------------------------------------------------------
(* Vocabulary of the properties, independent of the operators above *)
Last(q) == q[Len(q)]
IdsOf(txs) == {txs[i].id : i \in 1 .. Len(txs)}
InLedger(id) == \E i \in 1 .. Len(transactions) : transactions[i].id = id
RecordOf(id) == transactions[CHOOSE i \in 1 .. Len(transactions) : transactions[i].id = id]
Distinct(txs) == \A i, j \in 1 .. Len(txs) : i # j => txs[i].id # txs[j].id
Delta(call) == IF call.isCredit THEN call.amount ELSE 0 - call.amount
IsAdjust(e, c, a, amt, cr) ==
    /\ e.kind = "adjust"
    /\ e.clientId = c
    /\ e.accountId = a
    /\ e.amount = amt
    /\ e.isCredit = cr
NewEvents == SubSeq(events', Len(events) + 1, Len(events'))
AdjustCount(es) == Cardinality({i \in 1 .. Len(es) : es[i].kind = "adjust"})
ToastCount(es) == Cardinality({i \in 1 .. Len(es) : es[i].kind = "toast"})
Pending == ApplyQueue(transactions, queue)
SnapshotIds ==
    IF store.kind = "text" THEN {store.items[i][1][3] : i \in 1 .. Len(store.items)} ELSE {}

(* What a fresh startup reads from the store: the load callback followed by a render *)
Reloaded == ApplyQueue(<<>>, loadUpdates(store))

(* C1: after the initial load, once the persist effect that follows the last
   mutation has run, a reload yields a collection equal field for field to the
   one in memory, also when the mutation left the collection empty. *)
C1_PersistReloadRoundTrip ==
    (~loading /\ queue = <<>> /\ mutated) => Reloaded = transactions

(* C2: deleting a present id twice: the first call issues exactly one reversal
   call and removes the record; the second call on the same id, made once the
   removal has been applied, is a no-op: no Balance Adjuster call, no error,
   collection unchanged. *)
C2_DeleteTwice ==
    [][ /\ \A id \in Ids :
             deleteTransaction(id) =>
               /\ (InLedger(id) /\ reversals[id] = 0) =>
                     /\ AdjustCount(NewEvents) = 1
                     /\ Len(queue') = Len(queue) + 1
                     /\ Last(queue').kind = "filter"
                     /\ Last(queue').id = id
                     /\ id \notin IdsOf(ApplyUpdate(transactions, Last(queue')))
               /\ (id \in deleted) =>
                     /\ events' = events
                     /\ queue' = queue
                     /\ transactions' = transactions
                     /\ error' = error
                     /\ store' = store
        /\ \A id \in deleted' : id \notin IdsOf(transactions')
      ]_vars

C2_Witness ==
    \E id \in Ids :
        /\ lastOp = Op("deleteTransaction", id, FALSE)
        /\ id \in deleted
        /\ reversals[id] = 1
        /\ createCall[id] # NoCall

(* C3: for every record created by addTransaction or transferFunds, the
   Balance Adjuster call made at creation and the one made at deletion have the
   same clientId, accountId and amount and opposite isCredit. *)
C3_DeleteReversesCreate ==
    \A id \in Ids :
        (createCall[id].kind = "adjust" /\ reversals[id] > 0) =>
            /\ reversalCall[id].clientId = createCall[id].clientId
            /\ reversalCall[id].accountId = createCall[id].accountId
            /\ reversalCall[id].amount = createCall[id].amount
            /\ reversalCall[id].isCredit # createCall[id].isCredit

(* C4: all ids in the collection are pairwise distinct, and every record
   appended by addTransaction or transferFunds has an id that no record was
   given before and that differs from all ids of the collection, the snapshot
   and the seed dataset. *)
C4_IdsUnique ==
    [][ /\ Distinct(transactions')
        /\ Distinct(ApplyQueue(transactions', queue'))
        /\ (Len(queue') = Len(queue) + 1 /\ Last(queue').kind = "append") =>
              LET recs == Last(queue').recs
              IN /\ Distinct(recs)
                 /\ \A i \in 1 .. Len(recs) :
                       /\ recs[i].id \notin issued
                       /\ recs[i].id \notin IdsOf(transactions)
                       /\ recs[i].id \notin IdsOf(Pending)
                       /\ recs[i].id \notin SnapshotIds
                       /\ recs[i].id \notin IdsOf(mockTransactions)
      ]_vars

C4_Witness ==
    /\ ~loading
    /\ queue = <<>>
    /\ Len(transactions) >= 3
    /\ deleted # {}
    /\ lastOp.op \in {"addTransaction", "transferFunds"}

(* C5: every transferFunds call appends exactly two records at the end of the
   collection, sender side first, both of type transfer and status completed,
   with the amount and currency of the call, each cross-referencing the other
   side's client and account. *)
C5_TransferRecords ==
    [][ \A p \in TransferInputs :
          transferFunds(p) =>
            /\ Len(queue') = Len(queue) + 1
            /\ Last(queue').kind = "append"
            /\ LET recs == Last(queue').recs
               IN /\ Len(recs) = 2
                  /\ ApplyUpdate(Pending, Last(queue')) = Pending \o recs
                  /\ \A i \in 1 .. 2 :
                        /\ recs[i].type = "transfer"
                        /\ recs[i].status = "completed"
                        /\ recs[i].amount = p.amount
                        /\ recs[i].currency = p.currency
                  /\ recs[1].clientId = p.fromClientId
                  /\ recs[1].accountId = p.fromAccountId
                  /\ recs[1].recipientClientId = p.toClientId
                  /\ recs[1].recipientAccountId = p.toAccountId
                  /\ recs[2].clientId = p.toClientId
                  /\ recs[2].accountId = p.toAccountId
                  /\ recs[2].recipientClientId = p.fromClientId
                  /\ recs[2].recipientAccountId = p.fromAccountId
      ]_vars

C5_Witness ==
    /\ lastOp.op = "transferFunds"
    /\ ~loading
    /\ queue = <<>>
    /\ Len(transactions) = 4
    /\ transactions[3].recipientClientId = transactions[4].clientId
    /\ transactions[4].recipientClientId = transactions[3].clientId

(* C6: every transferFunds call invokes the Balance Adjuster exactly twice,
   first (from, amount, isCredit = false) then (to, amount, isCredit = true),
   then emits exactly one success notification; the two balance changes sum
   to zero. *)
C6_TransferCalls ==
    [][ \A p \in TransferInputs :
          transferFunds(p) =>
            /\ Len(NewEvents) = 3
            /\ SubSeq(events', 1, Len(events)) = events
            /\ IsAdjust(NewEvents[1], p.fromClientId, p.fromAccountId, p.amount, FALSE)
            /\ IsAdjust(NewEvents[2], p.toClientId, p.toAccountId, p.amount, TRUE)
            /\ NewEvents[3].kind = "toast"
            /\ AdjustCount(NewEvents) = 2
            /\ ToastCount(NewEvents) = 1
            /\ Delta(NewEvents[1]) + Delta(NewEvents[2]) = 0
      ]_vars

C6_Witness ==
    /\ lastOp.op = "transferFunds"
    /\ Len(events) = 3
    /\ events[1].kind = "adjust" /\ ~events[1].isCredit
    /\ events[2].kind = "adjust" /\ events[2].isCredit
    /\ events[3].kind = "toast"

(* C7: every addTransaction call appends exactly one record at the end of the
   collection, carrying the input's clientId, accountId, type, amount,
   description and currency with status completed, and invokes the Balance
   Adjuster exactly once with isCredit true exactly when type is deposit. *)
C7_AddRecordAndCall ==
    [][ \A t \in AddInputs :
          addTransaction(t) =>
            /\ Len(queue') = Len(queue) + 1
            /\ Last(queue').kind = "append"
            /\ LET recs == Last(queue').recs
               IN /\ Len(recs) = 1
                  /\ ApplyUpdate(Pending, Last(queue')) = Pending \o recs
                  /\ recs[1].clientId = t.clientId
                  /\ recs[1].accountId = t.accountId
                  /\ recs[1].type = t.type
                  /\ recs[1].amount = t.amount
                  /\ recs[1].description = t.description
                  /\ recs[1].currency = t.currency
                  /\ recs[1].status = "completed"
            /\ SubSeq(events', 1, Len(events)) = events
            /\ AdjustCount(NewEvents) = 1
            /\ IsAdjust(NewEvents[1], t.clientId, t.accountId, t.amount, t.type = "deposit")
      ]_vars

C7_Witness ==
    /\ lastOp.op = "addTransaction"
    /\ ~loading
    /\ queue = <<>>
    /\ Len(transactions) = 3
    /\ transactions[3].type = "transfer"
    /\ transactions[3].id = lastOp.id
    /\ createCall[lastOp.id].kind = "adjust"
    /\ ~createCall[lastOp.id].isCredit

(* C8: in every reachable state every record of the collection has
   amount >= 0. *)
C8_AmountNonNegative ==
    \A i \in 1 .. Len(transactions) : transactions[i].amount >= 0

(* C9: when deleteTransaction(id) finds a record, the reversal call uses the
   record's clientId, accountId and amount, with isCredit = false for a deposit
   and true for every other type; the call is made while the record is still
   in the collection, and the record is then removed. *)
C9_ReversalCall ==
    [][ /\ \A id \in Ids :
             (deleteTransaction(id) /\ InLedger(id)) =>
               /\ Len(NewEvents) >= 1
               /\ SubSeq(events', 1, Len(events)) = events
               /\ IsAdjust(NewEvents[1], RecordOf(id).clientId, RecordOf(id).accountId,
                           RecordOf(id).amount, RecordOf(id).type # "deposit")
               /\ AdjustCount(NewEvents) = 1
               /\ id \in IdsOf(transactions')
               /\ Last(queue') = UFilter(id)
        /\ (Len(queue) > 0 /\ queue' = <<>>) =>
               \A i \in 1 .. Len(queue) :
                   queue[i].kind = "filter" => queue[i].id \notin IdsOf(transactions')
      ]_vars

C9_Witness ==
    \E id \in Ids :
        /\ id \in deleted
        /\ id \notin IdsOf(transactions)
        /\ createCall[id].kind = "adjust"
        /\ createCall[id].isCredit
        /\ reversalCall[id].kind = "adjust"
        /\ reversalCall[id].isCredit

(* C10: deleteTransaction(id) with an id that is not in the collection changes
   nothing: collection unchanged, no Balance Adjuster call, no notification,
   no error. *)
C10_DeleteAbsent ==
    [][ \A id \in Ids :
          (deleteTransaction(id) /\ ~InLedger(id)) =>
            /\ transactions' = transactions
            /\ queue' = queue
            /\ events' = events
            /\ error' = error
            /\ loading' = loading
            /\ store' = store
      ]_vars

C10_Witness ==
    /\ lastOp = Op("deleteTransaction", IdOf(0), FALSE)
    /\ ~loading
    /\ Len(transactions) > 0
    /\ events = <<>>

(* C12: the startup load runs exactly once; when it does not fail it sets the
   collection to the stored snapshot if one exists and to the seed dataset
   otherwise, and the snapshot is not read again afterwards. *)
C12_LoadOnce ==
    [][ /\ LoadCallback =>
             /\ timer = "pending"
             /\ timer' = "fired"
             /\ store.kind = "text" =>
                   /\ ApplyQueue(transactions, queue') = JSONparse(store.items)
                   /\ IdsOf(ApplyQueue(transactions, queue')) = SnapshotIds
             /\ store.kind = "absent" =>
                   ApplyQueue(transactions, queue') = mockTransactions
        /\ timer = "fired" =>
             /\ timer' = "fired"
             /\ lastOp' # lastOp => lastOp'.op # "load"
             /\ \A i \in 1 .. Len(queue') : queue'[i].kind = "set" =>
                   \E j \in 1 .. Len(queue) : queue[j] = queue'[i]
      ]_vars

C12_Witness ==
    /\ lastOp = Op("load", "", TRUE)
    /\ timer = "fired"
    /\ ~loading
    /\ error = Null
    /\ queue = <<>>
    /\ Len(transactions) = 1
    /\ transactions[1].id = "t2"

(* C13: addTransaction and transferFunds leave every existing record unchanged
   and in place and add records only at the end; deleteTransaction(id) removes
   only the record with that id and keeps the others unchanged and in the same
   relative order. *)
Without(txs, id) == SelectSeq(txs, LAMBDA t : t.id # id)

C13_Frame ==
    [][ /\ (Len(queue') = Len(queue) + 1 /\ Last(queue').kind = "append") =>
             /\ SubSeq(ApplyUpdate(Pending, Last(queue')), 1, Len(Pending)) = Pending
             /\ SubSeq(ApplyUpdate(transactions, Last(queue')), 1, Len(transactions))
                    = transactions
             /\ Len(ApplyUpdate(Pending, Last(queue')))
                    = Len(Pending) + Len(Last(queue').recs)
        /\ (Len(queue') = Len(queue) + 1 /\ Last(queue').kind = "filter") =>
             /\ ApplyUpdate(Pending, Last(queue')) = Without(Pending, Last(queue').id)
             /\ ApplyUpdate(transactions, Last(queue'))
                    = Without(transactions, Last(queue').id)
        /\ \A i \in 1 .. Len(transactions'), j \in 1 .. Len(transactions) :
             transactions'[i].id = transactions[j].id => transactions'[i] = transactions[j]
        /\ (\A k \in 1 .. Len(queue) : queue[k].kind # "set") =>
             \A i1, i2 \in 1 .. Len(transactions), j1, j2 \in 1 .. Len(transactions') :
                 ( /\ i1 < i2
                   /\ transactions'[j1].id = transactions[i1].id
                   /\ transactions'[j2].id = transactions[i2].id ) => j1 < j2
      ]_vars

C13_Witness ==
    /\ queue = <<>>
    /\ Len(transactions) = 2
    /\ transactions[1] = mockTransactions[1]
    /\ transactions[2].id = "t3"
    /\ "t2" \in deleted

(* C17: a record appended by addTransaction or transferFunds stays in the
   collection until deleteTransaction is called with its id, for every
   interleaving with the startup load callback. *)
C17_AddedRecordsKept ==
    \A id \in Ids :
        (createCall[id].kind = "adjust" /\ reversals[id] = 0) => id \in IdsOf(Pending)

(* C18: for every id at most one reversal call to the Balance Adjuster is ever
   issued, also when deleteTransaction(id) is called twice before the removal
   queued by the first call has been applied. *)
C18_AtMostOneReversal ==
    \A id \in Ids : reversals[id] <= 1

(* C19: the store is never written while loading is true and the value
   written is never the empty collection, so the snapshot is not overwritten
   before the startup load has read it. *)
C19_NoWriteWhileLoading ==
    [][ /\ store' # store =>
             /\ ~loading'
             /\ store'.kind = "text"
             /\ Len(store'.items) > 0
             /\ timer = "fired"
        /\ loading' => store' = store
        /\ timer' = "pending" => store' = store
      ]_vars

C19_Witness ==
    /\ ~loading
    /\ queue = <<>>
    /\ store.kind = "text"
    /\ Len(store.items) = 3
    /\ store.items = JSONstringify(transactions)

(* C20: loading starts true, becomes false
   once and never becomes true again; the error flag is set only by a failed
   load, is never cleared, and whenever it is set loading is false. *)
C20_LoadingAndError ==
    [][ /\ ~loading => ~loading'
        /\ error # Null => error' = error
        /\ (error = Null /\ error' # Null) =>
              /\ store.kind = "corrupt"
              /\ loading
              /\ \E i \in 1 .. Len(queue) : queue[i].kind = "setError"
        /\ error' # Null => ~loading'
        /\ (loading /\ ~loading') => timer = "fired"
      ]_vars

C20_Witness ==
    /\ ~loading
    /\ error # Null
    /\ lastOp.op = "addTransaction"
    /\ queue = <<>>
    /\ Len(transactions) = 1

Matching(txs, c) == SelectSeq(txs, LAMBDA t : t.clientId = c)
Lookup(txs, id) ==
    IF id \in IdsOf(txs) THEN txs[CHOOSE i \in 1 .. Len(txs) : txs[i].id = id] ELSE NoTx

(* C11 as stated: when the startup load fails the error flag is set and reads
   are blocked: while the flag is set getTransaction and getClientTransactions
   return no ledger data, and no operation retries the load. *)
C11_ReadsBlocked ==
    error # Null =>
        /\ ~loading
        /\ timer = "fired"
        /\ ret.op = "getTransaction" => ret.value = <<NoTx>>
        /\ ret.op = "getClientTransactions" => ret.value = <<>>

(* C11 as amended: when the startup load fails the error flag is set with
   loading false, no operation retries the load or clears the flag, and reads
   are not blocked: getTransaction and getClientTransactions keep returning
   the records of the current collection. *)
C11_ErrorFlagNoRetry ==
    [][ /\ (error = Null /\ error' # Null) => (store.kind = "corrupt" /\ ~loading')
        /\ error # Null =>
             /\ error' = error
             /\ timer' = "fired"
             /\ lastOp' # lastOp => lastOp'.op # "load"
             /\ \A i \in 1 .. Len(queue') : queue'[i].kind \notin {"set", "setError"}
             /\ \A id \in ReadIds :
                   getTransaction(id) => ret'.value = <<Lookup(transactions, id)>>
             /\ \A c \in ReadClients :
                   getClientTransactions(c) => ret'.value = Matching(transactions, c)
      ]_vars

C11_Witness ==
    /\ error # Null
    /\ ~loading
    /\ ret.op = "getTransaction"
    /\ ret.value # <<NoTx>>
    /\ ret.value = <<transactions[1]>>

(* C14: getClientTransactions(c) returns exactly the subsequence of the
   current collection, in collection order, of the records whose clientId is
   c; it changes no state, and two calls with no step between them return
   equal sequences. *)
C14_ClientTransactions ==
    [][ \A c \in ReadClients :
          getClientTransactions(c) =>
            /\ ret'.value = Matching(transactions, c)
            /\ \A i \in 1 .. Len(ret'.value) : ret'.value[i].clientId = c
            /\ Len(ret'.value) =
                  Cardinality({i \in 1 .. Len(transactions) : transactions[i].clientId = c})
            /\ (ret.op = "getClientTransactions" /\ ret.arg = c) => ret'.value = ret.value
            /\ transactions' = transactions
            /\ queue' = queue
            /\ store' = store
            /\ events' = events
            /\ loading' = loading
            /\ error' = error
      ]_vars

C14_Witness ==
    /\ ret.op = "getClientTransactions"
    /\ ret.arg = "C1"
    /\ Len(transactions) = 4
    /\ Len(ret.value) = 2
    /\ ret.value[1] = transactions[1]
    /\ ret.value[2] = transactions[3]

(* C15: transferFunds is not atomic: when the Balance Adjuster call crediting
   the recipient fails, the sender's debit and the appended records are not
   rolled back and no compensating adjustment is issued. *)
C15_NoRollback ==
    [][ /\ \A p \in TransferInputs :
             transferFundsCreditThrows(p) =>
               /\ Len(queue') = Len(queue) + 1
               /\ Last(queue').kind = "append"
               /\ Last(queue').recs[1].clientId = p.fromClientId
               /\ Last(queue').recs[1].type = "transfer"
               /\ Len(Last(queue').recs) = 2
               /\ SubSeq(events', 1, Len(events)) = events
               /\ AdjustCount(NewEvents) = 1
               /\ IsAdjust(NewEvents[1], p.fromClientId, p.fromAccountId, p.amount, FALSE)
               /\ ToastCount(NewEvents) = 0
        /\ (lastOp.op = "transferFundsThrew" /\ lastOp' = lastOp) =>
               /\ events' = events
               /\ lastOp.id \in IdsOf(ApplyQueue(transactions', queue'))
      ]_vars

C15_Witness ==
    /\ lastOp.op = "transferFundsThrew"
    /\ ~loading
    /\ queue = <<>>
    /\ Len(transactions) = 4
    /\ transactions[3].id = lastOp.id
    /\ transactions[4].type = "transfer"
    /\ AdjustCount(events) = 1
    /\ ~events[1].isCredit

(* C16: the startup load always finishes: once the timer callback has fired
   and React has rendered, loading is false, with the error flag unset and the
   collection populated after a successful load and the error flag set after a
   failed one; no user operation prevents this. *)
C16_LoadFinishes ==
    /\ loading ~> ~loading
    /\ [][ (loading /\ ~loading') =>
             IF store.kind = "corrupt"
             THEN error' # Null
             ELSE error' = Null /\ transactions' # <<>> ]_vars

C16_Witness ==
    /\ ~loading
    /\ error = Null
    /\ Len(transactions) = 2
    /\ lastOp.op = "deleteTransaction"
    /\ lastOp.found

====
